---- MODULE Spec2Model ----
(***************************************************************************)
(* Model of the memories routes of nlw-timeline-server                     *)
(* (src/unnamed/part_000, registered by src/src/server.ts).                *)
(*                                                                         *)
(* The store (the Memory table behind prisma.memory) is a set of records.  *)
(* The store executes one call at a time; requests interleave at their     *)
(* store calls.  A handler with one store call is one step.  PUT and       *)
(* DELETE make two: the first step runs the handler up to the call of      *)
(* update / delete (hook, parsing, findUniqueOrThrow and the owner test,   *)
(* which reads only the handler's locals), the second step is the store    *)
(* executing that call, and other requests' steps can come between.        *)
(***************************************************************************)
EXTENDS Integers, Sequences, FiniteSets, Bags, TLC

\* ------------------------------------------------------------------ bounds
MaxIds == 2          \* identifiers the store generates in one run
MaxInFlight == 2     \* PUT / DELETE requests between their find and their write
MaxOver == 2         \* how far past ExcerptLen the checked contents reach

\* --------------------------------------------------------------- constants
ExcerptLen == 115    \* memory.content.length > 115, substring(0, 115)

\* ------------------------------------------------------------- JS values
JsUndefined == [t |-> "undefined", s |-> <<>>, b |-> FALSE, n |-> 0]
JsString(str) == [t |-> "string", s |-> str, b |-> FALSE, n |-> 0]
JsBoolean(bool) == [t |-> "boolean", s |-> <<>>, b |-> bool, n |-> 0]
JsNumber(num) == [t |-> "number", s |-> <<>>, b |-> FALSE, n |-> num]

\* Boolean(v), the coercion z.coerce.boolean() applies
ToBoolean(v) ==
    CASE v.t = "boolean" -> v.b
      [] v.t = "string" -> Len(v.s) > 0
      [] v.t = "number" -> v.n # 0
      [] OTHER -> FALSE

\* a text of n characters whose characters differ by position
Chr(i) == IF i % 3 = 1 THEN "a" ELSE IF i % 3 = 2 THEN "b" ELSE "c"
Text(n) == [i \in 1..n |-> Chr(i)]

Ellipsis == <<".", ".", ".">>

\* ------------------------------------------------------------ principals
Users == {"u1", "u2"}
NoToken == "none"
Tokens == Users \cup {NoToken}

\* ------------------------------------------------------------ path params
Uuid(k) == [uuid |-> TRUE, n |-> k]
Malformed == [uuid |-> FALSE, n |-> 0]
PathParams == {Uuid(k) : k \in 1..MaxIds} \cup {Malformed}

\* ------------------------------------------------------------ request bodies
ShortContent == Text(2)
LongContent == Text(ExcerptLen + 1)
CoverA == <<"x">>
CoverB == <<"y">>
Body(content, coverUrl, isPublic) ==
    [content |-> content, coverUrl |-> coverUrl, isPublic |-> isPublic]
\* two bodies the schema accepts, one that lacks content, one whose coverUrl
\* is no string
Bodies ==
    {Body(JsString(ShortContent), JsString(CoverA), JsUndefined),
     Body(JsString(LongContent), JsString(CoverB), JsBoolean(TRUE)),
     Body(JsUndefined, JsString(CoverA), JsBoolean(TRUE)),
     Body(JsString(ShortContent), JsNumber(7), JsUndefined)}
NoBody == [content |-> JsUndefined, coverUrl |-> JsUndefined, isPublic |-> JsUndefined]

VARIABLES
    store,      \* the Memory table: a set of Memory records
    nextId,     \* the next identifier the store generates
    clock,      \* the createdAt the store stamped last, in ticks since the
                \* first create
    slots,      \* the bag of PUT / DELETE requests that await their write
    last,       \* the request step handled last and its response
    fresh,      \* history: the records create returned, until an update or
                \* a delete of the record succeeds
    deleted     \* history: identifiers a successful delete removed

vars == <<store, nextId, clock, slots, last, fresh, deleted>>


\* ------------------------------------------------------------ the hook
\* req.jwtVerify(): resolves for a verifiable bearer token, throws otherwise
JwtVerify(tok) == tok \in Users

\* a hook that lets every request through
PreHandlerOpen(tok) == TRUE

\* app.addHook('preHandler', ...): TRUE when the request goes on to its handler
PreHandler(tok) == JwtVerify(tok)

\* req.user.sub
Sub(tok) == tok

\* ------------------------------------------------------------ validation
\* paramsSchema.parse(req.params): z.string().uuid()
ParamsValid(param) == param.uuid

\* z.coerce.boolean().default(false)
CoercePublic(v) == IF v.t = "undefined" THEN FALSE ELSE ToBoolean(v)

\* bodySchema.parse(req.body) succeeds: content and coverUrl are strings
BodyValid(body) == body.content.t = "string" /\ body.coverUrl.t = "string"

\* the value bodySchema.parse(req.body) returns
BodyParse(body) ==
    [content |-> body.content.s,
     coverUrl |-> body.coverUrl.s,
     isPublic |-> CoercePublic(body.isPublic)]

\* ------------------------------------------------------------ the store
\* prisma.memory.findUniqueOrThrow({ where: { id } }): the rows found
\* (none: the call throws)
FindUnique(st, id) == {m \in st : m.id = id}

\* the row of identifier id, when there is one
Row(st, id) == CHOOSE m \in st : m.id = id

\* the sequences that hold each element of S once
Orderings(S) ==
    {s \in [1..Cardinality(S) -> S] : \A i, j \in 1..Cardinality(S) : i # j => s[i] # s[j]}

\* a findMany ordered by createdAt descending
FindManyDesc(st, userId) ==
    {s \in Orderings({m \in st : m.userId = userId}) :
        \A i, j \in 1..Len(s) : i < j => s[i].createdAt >= s[j].createdAt}

\* prisma.memory.findMany({ where: { userId }, orderBy: { createdAt: 'asc' } }):
\* the orders the store may return (rows of one createdAt come in any order)
FindMany(st, userId) ==
    {s \in Orderings({m \in st : m.userId = userId}) :
        \A i, j \in 1..Len(s) : i < j => s[i].createdAt <= s[j].createdAt}

\* the row prisma.memory.create({ data }) inserts: the store generates a fresh
\* id and stamps createdAt
NewMemory(id, now, data) ==
    [id |-> id,
     content |-> data.content,
     coverUrl |-> data.coverUrl,
     isPublic |-> data.isPublic,
     userId |-> data.userId,
     createdAt |-> now]

\* an update that keeps a row public when the body omits isPublic
UpdateRowKeep(m, data) ==
    [m EXCEPT !.content = data.content,
              !.coverUrl = data.coverUrl,
              !.isPublic = data.isPublic \/ m.isPublic]

\* prisma.memory.update({ where: { id }, data: { content, coverUrl, isPublic } })
\* on an existing row
UpdateRow(m, data) ==
    [m EXCEPT !.content = data.content,
              !.coverUrl = data.coverUrl,
              !.isPublic = data.isPublic]

\* an update whose where clause selects every row of the row's owner
PutUpdateMany(st, id, data) ==
    {IF m.userId = Row(st, id).userId THEN UpdateRow(m, data) ELSE m : m \in st}

\* the table after the update of the row of identifier id
PutUpdate(st, id, data) ==
    {IF m.id = id THEN UpdateRow(m, data) ELSE m : m \in st}

\* prisma.memory.delete({ where: { id } }) on an existing row
DeleteRow(st, id) == {m \in st : m.id # id}

\* ------------------------------------------------------------ list projection
\* an excerpt that truncates from ExcerptLen characters on
ExcerptAtLeast(content) ==
    IF Len(content) >= ExcerptLen
    THEN SubSeq(content, 1, ExcerptLen) \o Ellipsis
    ELSE content

\* the excerpt of the list view
Excerpt(content) ==
    IF Len(content) > ExcerptLen
    THEN SubSeq(content, 1, ExcerptLen) \o Ellipsis
    ELSE content

ListItem(memory) ==
    [id |-> memory.id, coverUrl |-> memory.coverUrl, excerpt |-> Excerpt(memory.content)]

\* ------------------------------------------------------------ responses
\* outcome: "ok" (the handler returned), "401" (reply.status(401).send()),
\* "jwtError" (the hook threw), "zodError" (a schema threw), "notFound"
\* (findUniqueOrThrow threw), "writeFailed" (update / delete threw),
\* "pending" (the handler awaits its write).
\* payload: the records of the response body, <<>> for an empty body.
\* calls: store calls the request has made; handler: the handler was entered.
Resp(kind, tok, param, body, outcome, payload, calls, handler) ==
    [kind |-> kind, tok |-> tok, param |-> param, body |-> body,
     outcome |-> outcome, payload |-> payload, calls |-> calls, handler |-> handler]

\* a request that has called update / delete and awaits the store
Pending(kind, tok, param, body) ==
    [kind |-> kind, tok |-> tok, param |-> param, body |-> body]

Init ==
    /\ store = {}
    /\ nextId = 1
    /\ clock = 0
    /\ slots = EmptyBag
    /\ last = Resp("none", NoToken, Malformed, NoBody, "none", <<>>, 0, FALSE)
    /\ fresh = {}
    /\ deleted = {}

\* the preHandler hook throws: the request reaches no handler, whatever its
\* route, path and body
Unauthenticated(kind, tok) ==
    /\ ~PreHandler(tok)
    /\ last' = Resp(kind, tok, Malformed, NoBody, "jwtError", <<>>, 0, FALSE)
    /\ UNCHANGED <<store, nextId, clock, slots, fresh, deleted>>

\* GET /memories
GetMemories(tok) ==
    /\ PreHandler(tok)
    /\ \E memories \in FindMany(store, Sub(tok)) :
            last' = Resp("LIST", tok, Malformed, NoBody, "ok",
                         [i \in 1..Len(memories) |-> ListItem(memories[i])], 1, TRUE)
    /\ UNCHANGED <<store, nextId, clock, slots, fresh, deleted>>

\* a test that forgets isPublic
GetDeniedOwnerOnly(memory, tok) == memory.userId # Sub(tok)

\* a test that joins its two conditions with ||
GetDeniedEither(memory, tok) == ~memory.isPublic \/ memory.userId # Sub(tok)

\* the authorization test of GET /memories/:id
GetDenied(memory, tok) == ~memory.isPublic /\ memory.userId # Sub(tok)

\* GET /memories/:id
GetMemory(tok, param) ==
    /\ PreHandler(tok)
    /\ last' =
         IF ~ParamsValid(param)
         THEN Resp("GET", tok, param, NoBody, "zodError", <<>>, 0, TRUE)
         ELSE IF FindUnique(store, param.n) = {}
         THEN Resp("GET", tok, param, NoBody, "notFound", <<>>, 1, TRUE)
         ELSE LET memory == Row(store, param.n) IN
              IF GetDenied(memory, tok)
              THEN Resp("GET", tok, param, NoBody, "401", <<>>, 1, TRUE)
              ELSE Resp("GET", tok, param, NoBody, "ok", <<memory>>, 1, TRUE)
    /\ UNCHANGED <<store, nextId, clock, slots, fresh, deleted>>

\* the times the store's clock can show at the next create, in ticks since
\* the first create: time does not run backwards, and two creates can fall on
\* one tick
Now == IF nextId = 1 THEN {0} ELSE {clock, clock + 1}

\* the data POST /memories hands to prisma.memory.create
PostData(body, tok) ==
    [content |-> BodyParse(body).content,
     coverUrl |-> BodyParse(body).coverUrl,
     isPublic |-> BodyParse(body).isPublic,
     userId |-> Sub(tok)]

\* POST /memories
PostMemories(tok, body) ==
    /\ PreHandler(tok)
    /\ IF ~BodyValid(body)
       THEN /\ last' = Resp("POST", tok, Malformed, body, "zodError", <<>>, 0, TRUE)
            /\ UNCHANGED <<store, nextId, clock, slots, fresh, deleted>>
       ELSE \E now \in Now :
            LET memory == NewMemory(nextId, now, PostData(body, tok)) IN
            /\ nextId <= MaxIds
            /\ store' = store \cup {memory}
            /\ nextId' = nextId + 1
            /\ clock' = now
            /\ fresh' = fresh \cup {memory}
            /\ last' = Resp("POST", tok, Malformed, body, "ok", <<memory>>, 1, TRUE)
            /\ UNCHANGED <<slots, deleted>>

\* the test of GET /memories/:id, used for the writes
NotOwnerPrivate(memory, tok) == ~memory.isPublic /\ memory.userId # Sub(tok)

\* the owner test of PUT /memories/:id and DELETE /memories/:id
NotOwner(memory, tok) == memory.userId # Sub(tok)

\* PUT /memories/:id up to the call of prisma.memory.update
PutFind(tok, param, body) ==
    /\ PreHandler(tok)
    /\ IF ~ParamsValid(param) \/ ~BodyValid(body)
       THEN /\ last' = Resp("PUT", tok, param, body, "zodError", <<>>, 0, TRUE)
            /\ UNCHANGED slots
       ELSE IF FindUnique(store, param.n) = {}
       THEN /\ last' = Resp("PUT", tok, param, body, "notFound", <<>>, 1, TRUE)
            /\ UNCHANGED slots
       ELSE IF NotOwner(Row(store, param.n), tok)
       THEN /\ last' = Resp("PUT", tok, param, body, "401", <<>>, 1, TRUE)
            /\ UNCHANGED slots
       ELSE /\ BagCardinality(slots) < MaxInFlight
            /\ slots' = slots (+) SetToBag({Pending("PUT", tok, param, body)})
            /\ last' = Resp("PUT", tok, param, body, "pending", <<>>, 1, TRUE)
    /\ UNCHANGED <<store, nextId, clock, fresh, deleted>>

\* the data PUT /memories/:id hands to prisma.memory.update
PutData(body) == BodyParse(body)

\* an upsert in the place of the update: it inserts the row when none has the id
PutCallUpsert(st, q) ==
    IF FindUnique(st, q.param.n) = {}
    THEN [threw |-> FALSE,
          rows |-> st \cup {[id |-> q.param.n,
                             content |-> PutData(q.body).content,
                             coverUrl |-> PutData(q.body).coverUrl,
                             isPublic |-> PutData(q.body).isPublic,
                             userId |-> Sub(q.tok),
                             createdAt |-> clock]}]
    ELSE [threw |-> FALSE, rows |-> PutUpdate(st, q.param.n, PutData(q.body))]

\* prisma.memory.update({ where: { id }, data }) as request q calls it, on the
\* table st: it throws when no row has the id, and changes that row otherwise
PutCall(st, q) ==
    IF FindUnique(st, q.param.n) = {}
    THEN [threw |-> TRUE, rows |-> st]
    ELSE [threw |-> FALSE, rows |-> PutUpdate(st, q.param.n, PutData(q.body))]

\* the store executes the prisma.memory.update of PUT /memories/:id, and the
\* handler returns its result
PutWrite(q) ==
    /\ q.kind = "PUT"
    /\ slots' = slots (-) SetToBag({q})
    /\ IF PutCall(store, q).threw
       THEN /\ last' = Resp("PUT", q.tok, q.param, q.body, "writeFailed", <<>>, 2, TRUE)
            /\ UNCHANGED <<store, fresh>>
       ELSE /\ store' = PutCall(store, q).rows
            /\ fresh' = {m \in fresh : m.id # q.param.n}
            /\ last' = Resp("PUT", q.tok, q.param, q.body, "ok",
                            <<Row(store', q.param.n)>>, 2, TRUE)
    /\ UNCHANGED <<nextId, clock, deleted>>

\* DELETE /memories/:id up to the call of prisma.memory.delete
DeleteFind(tok, param) ==
    /\ PreHandler(tok)
    /\ IF ~ParamsValid(param)
       THEN /\ last' = Resp("DELETE", tok, param, NoBody, "zodError", <<>>, 0, TRUE)
            /\ UNCHANGED slots
       ELSE IF FindUnique(store, param.n) = {}
       THEN /\ last' = Resp("DELETE", tok, param, NoBody, "notFound", <<>>, 1, TRUE)
            /\ UNCHANGED slots
       ELSE IF NotOwner(Row(store, param.n), tok)
       THEN /\ last' = Resp("DELETE", tok, param, NoBody, "401", <<>>, 1, TRUE)
            /\ UNCHANGED slots
       ELSE /\ BagCardinality(slots) < MaxInFlight
            /\ slots' = slots (+) SetToBag({Pending("DELETE", tok, param, NoBody)})
            /\ last' = Resp("DELETE", tok, param, NoBody, "pending", <<>>, 1, TRUE)
    /\ UNCHANGED <<store, nextId, clock, fresh, deleted>>

\* a deleteMany in the place of the delete: it never throws
DeleteCallQuiet(st, q) == [threw |-> FALSE, rows |-> DeleteRow(st, q.param.n)]

\* prisma.memory.delete({ where: { id } }) as request q calls it, on the table
\* st: it throws when no row has the id, and removes that row otherwise
DeleteCall(st, q) ==
    IF FindUnique(st, q.param.n) = {}
    THEN [threw |-> TRUE, rows |-> st]
    ELSE [threw |-> FALSE, rows |-> DeleteRow(st, q.param.n)]

\* the store executes the prisma.memory.delete of DELETE /memories/:id
DeleteWrite(q) ==
    /\ q.kind = "DELETE"
    /\ slots' = slots (-) SetToBag({q})
    /\ IF DeleteCall(store, q).threw
       THEN /\ last' = Resp("DELETE", q.tok, q.param, NoBody, "writeFailed", <<>>, 2, TRUE)
            /\ UNCHANGED <<store, fresh, deleted>>
       ELSE /\ store' = DeleteCall(store, q).rows
            /\ deleted' = deleted \cup {q.param.n}
            /\ fresh' = {m \in fresh : m.id # q.param.n}
            /\ last' = Resp("DELETE", q.tok, q.param, NoBody, "ok", <<>>, 2, TRUE)
    /\ UNCHANGED <<nextId, clock>>

Kinds == {"LIST", "GET", "POST", "PUT", "DELETE"}

Next ==
    \/ \E kind \in Kinds, tok \in Tokens : Unauthenticated(kind, tok)
    \/ \E tok \in Tokens : GetMemories(tok)
    \/ \E tok \in Tokens, param \in PathParams : GetMemory(tok, param)
    \/ \E tok \in Tokens, body \in Bodies : PostMemories(tok, body)
    \/ \E tok \in Tokens, param \in PathParams, body \in Bodies : PutFind(tok, param, body)
    \/ \E q \in BagToSet(slots) : PutWrite(q)
    \/ \E tok \in Tokens, param \in PathParams : DeleteFind(tok, param)
    \/ \E q \in BagToSet(slots) : DeleteWrite(q)

Spec == Init /\ [][Next]_vars

\* ------------------------------------------------------------ the list view alone
\* the contents whose excerpt is checked: every length up to MaxOver characters
\* past ExcerptLen
ExcerptContents == {Text(n) : n \in 0..(ExcerptLen + MaxOver)}

\* a store that holds one Memory, of any of the contents
InitExcerpt ==
    /\ \E content \in ExcerptContents, userId \in Users, isPublic \in BOOLEAN :
         store = {NewMemory(1, 0, [content |-> content, coverUrl |-> CoverA,
                                   isPublic |-> isPublic, userId |-> userId])}
    /\ nextId = 2
    /\ clock = 0
    /\ slots = EmptyBag
    /\ last = Resp("none", NoToken, Malformed, NoBody, "none", <<>>, 0, FALSE)
    /\ fresh = {}
    /\ deleted = {}

NextExcerpt == \E tok \in Tokens : GetMemories(tok)

SpecExcerpt == InitExcerpt /\ [][NextExcerpt]_vars

\* ------------------------------------------------------------ properties
Ids(st) == {m.id : m \in st}

\* the Memory a read sees under GET /memories/:id
Visible(m, caller) == m.isPublic \/ m.userId = caller

\* C1: GET /memories/:id of an existing Memory by an authenticated caller
\* returns the full record exactly when the Memory is public or the caller
\* owns it, and answers 401 with an empty body otherwise.
C1_ReadVisibility ==
    (last.kind = "GET" /\ last.tok \in Users /\ last.param.uuid) =>
        \A m \in store :
            m.id = last.param.n =>
                /\ last.outcome \in {"ok", "401"}
                /\ (last.outcome = "ok") <=> Visible(m, last.tok)
                /\ last.outcome = "ok" => last.payload = <<m>>
                /\ last.outcome = "401" => last.payload = <<>>

C1_Witness ==
    /\ last.kind = "GET"
    /\ last.outcome = "401"
    /\ \E m \in store : m.id = last.param.n /\ ~m.isPublic /\ m.userId # last.tok

\* C2: a PUT or DELETE of an existing Memory by a caller who is not its owner
\* answers 401 with an empty body and leaves the store as it was, public or
\* not; and every step that changes or removes a Memory is the write of a
\* successful PUT or DELETE of that Memory by its owner.
C2_WriteAuthorization ==
    [][\A m \in store :
          /\ (/\ last'.kind \in {"PUT", "DELETE"}
              /\ last'.tok \in Users
              /\ last'.param = Uuid(m.id)
              /\ last'.body \in {b \in Bodies : BodyValid(b)} \cup {NoBody}
              /\ last'.tok # m.userId)
             => (last'.outcome = "401" /\ last'.payload = <<>> /\ store' = store)
          /\ m \notin store'
             => (/\ last'.kind \in {"PUT", "DELETE"}
                 /\ last'.outcome = "ok"
                 /\ last'.param = Uuid(m.id)
                 /\ last'.tok = m.userId)]_vars

C2_Witness ==
    /\ last.kind \in {"PUT", "DELETE"}
    /\ last.outcome = "401"
    /\ \E m \in store : m.id = last.param.n /\ m.isPublic /\ m.userId # last.tok

\* C3: no step changes the id, userId or createdAt of a Memory; a create gives
\* the new Memory the caller as userId; a successful update sets content,
\* coverUrl and isPublic of its Memory to the values of the request body and
\* changes nothing else in the store.
C3_IdentityImmutable ==
    [][/\ \A m \in store : \A n \in store' :
            n.id = m.id => (n.userId = m.userId /\ n.createdAt = m.createdAt)
       /\ (last'.kind = "POST" /\ last'.outcome = "ok") =>
            LET n == last'.payload[1] IN
            /\ n.userId = last'.tok
            /\ store' = store \cup {n}
       /\ (last'.kind = "PUT" /\ last'.outcome = "ok") =>
            \E m \in store :
                /\ m.id = last'.param.n
                /\ store' = (store \ {m}) \cup
                     {[id |-> m.id,
                       content |-> last'.body.content.s,
                       coverUrl |-> last'.body.coverUrl.s,
                       isPublic |-> (last'.body.isPublic = JsBoolean(TRUE)),
                       userId |-> m.userId,
                       createdAt |-> m.createdAt]}]_vars

C3_Witness ==
    /\ last.kind = "PUT"
    /\ last.outcome = "ok"
    /\ Cardinality(store) = 2
    /\ \A m \in store : m.userId = last.tok

\* C4: a deleted Memory never exists again, whatever request was in flight
\* when it was deleted, and GET /memories/:id of its identifier ends in the
\* not-found error.
C4_DeletedStaysDeleted ==
    /\ \A m \in store : m.id \notin deleted
    /\ (last.kind = "GET" /\ last.tok \in Users /\ last.param.uuid
            /\ last.param.n \in deleted)
         => (last.outcome = "notFound" /\ last.payload = <<>>)

C4_Witness ==
    /\ last.kind = "PUT"
    /\ last.outcome = "writeFailed"
    /\ last.param.n \in deleted

\* C5: GET /memories returns one item for each Memory of the caller and none
\* for any other Memory, in ascending order of createdAt, each item holding
\* id, coverUrl and excerpt only.
C5_ListOwned ==
    (last.kind = "LIST" /\ last.tok \in Users) =>
        LET owned == {m \in store : m.userId = last.tok}
            items == last.payload
        IN
        /\ last.outcome = "ok"
        /\ Len(items) = Cardinality(owned)
        /\ {items[i].id : i \in 1..Len(items)} = Ids(owned)
        /\ \A i \in 1..Len(items) :
              /\ DOMAIN items[i] = {"id", "coverUrl", "excerpt"}
              /\ items[i].coverUrl = Row(store, items[i].id).coverUrl
        /\ \A i, j \in 1..Len(items) :
              i < j => Row(store, items[i].id).createdAt <= Row(store, items[j].id).createdAt

C5_Witness ==
    /\ last.kind = "LIST"
    /\ last.outcome = "ok"
    /\ Len(last.payload) = 1
    /\ \E m \in store : m.userId # last.tok /\ m.isPublic

\* C6: a request whose token does not verify reaches no handler; a request
\* whose path identifier is no UUID, or whose body lacks or mistypes content
\* or coverUrl, ends in the validation error before any store call (for PUT
\* also when the identifier names no Memory or another user's); in both cases
\* the step leaves the store as it was.
C6_GateBeforeStore ==
    [][LET l == last' IN
       /\ l.tok \notin Users =>
            (l.outcome = "jwtError" /\ ~l.handler /\ l.calls = 0)
       /\ (l.handler /\ l.kind \in {"GET", "PUT", "DELETE"} /\ ~l.param.uuid) =>
            (l.outcome = "zodError" /\ l.calls = 0)
       /\ (/\ l.handler
           /\ l.kind \in {"POST", "PUT"}
           /\ (l.body.content.t # "string" \/ l.body.coverUrl.t # "string")) =>
            (l.outcome = "zodError" /\ l.calls = 0)
       /\ l.outcome \in {"jwtError", "zodError"} =>
            (l.calls = 0 /\ store' = store /\ slots' = slots)]_vars

C6_Witness ==
    /\ last.kind = "PUT"
    /\ last.outcome = "zodError"
    /\ last.param.uuid
    /\ \E m \in store : m.id = last.param.n /\ m.userId # last.tok

\* C7: a create whose body omits isPublic stores and returns isPublic = false,
\* and a successful update whose body omits it leaves the stored isPublic
\* false, also when it was true before.
C7_PublicDefaultsFalse ==
    [][(/\ last'.kind \in {"POST", "PUT"}
        /\ last'.outcome = "ok"
        /\ last'.body.isPublic.t = "undefined") =>
          /\ Len(last'.payload) = 1
          /\ last'.payload[1].isPublic = FALSE
          /\ last'.payload[1] \in store'
          /\ last'.kind = "PUT" =>
                /\ last'.payload[1].id = last'.param.n
                /\ \E m \in store : m.id = last'.param.n]_vars

C7_Witness ==
    /\ last.kind = "PUT"
    /\ last.outcome = "ok"
    /\ last.body.isPublic.t = "undefined"
    /\ ~Row(store, last.param.n).isPublic

\* C8: while no update or delete of a created Memory has succeeded, GET
\* /memories/:id by its creator returns the record the create returned.
C8_CreateGetRoundTrip ==
    (last.kind = "GET" /\ last.param.uuid) =>
        \A r \in fresh :
            (r.id = last.param.n /\ r.userId = last.tok) =>
                (last.outcome = "ok" /\ last.payload = <<r>>)

C8_Witness ==
    /\ last.kind = "GET"
    /\ last.outcome = "ok"
    /\ \E r \in fresh : r.id = last.param.n /\ r.userId = last.tok /\ ~r.isPublic
    /\ \E m \in store : m \notin fresh

\* C9: the excerpt of a list item is the first ExcerptLen characters of the
\* content followed by "..." when the content is longer than ExcerptLen, and
\* the content itself otherwise.
C9_Excerpt ==
    (last.kind = "LIST" /\ last.outcome = "ok") =>
        \A i \in 1..Len(last.payload) :
            LET content == Row(store, last.payload[i].id).content
                excerpt == last.payload[i].excerpt
            IN
            IF Len(content) > ExcerptLen
            THEN /\ Len(excerpt) = ExcerptLen + 3
                 /\ \A k \in 1..ExcerptLen : excerpt[k] = content[k]
                 /\ \A k \in (ExcerptLen + 1)..(ExcerptLen + 3) : excerpt[k] = "."
            ELSE excerpt = content

C9_Witness ==
    /\ last.kind = "LIST"
    /\ last.outcome = "ok"
    /\ Len(last.payload) = 1
    /\ Len(Row(store, last.payload[1].id).content) = ExcerptLen + 2
    /\ Len(last.payload[1].excerpt) = ExcerptLen + 3

\* the effect of one step on the store: none unless the step's request
\* succeeded, and then the whole effect of a create, an update or a delete
WholeOrNothing ==
    LET l == last' IN
    /\ l.outcome # "ok" => store' = store
    /\ store' # store =>
         \/ /\ l.kind = "POST"
            /\ store' = store \cup {l.payload[1]}
         \/ /\ l.kind = "PUT"
            /\ \E m \in store :
                 /\ m.id = l.param.n
                 /\ store' = (store \ {m}) \cup {l.payload[1]}
                 /\ l.payload[1].content = l.body.content.s
                 /\ l.payload[1].coverUrl = l.body.coverUrl.s
         \/ /\ l.kind = "DELETE"
            /\ \E m \in store : m.id = l.param.n /\ store' = store \ {m}

\* C10 as stated: every step is whole or nothing, and no request that has
\* passed its existence and owner check fails at its write.
C10_NoFailureAtWrite ==
    [][WholeOrNothing /\ (last'.calls = 2 => last'.outcome = "ok")]_vars

\* C10 amended: every step is whole or nothing; a request that has passed its
\* existence and owner check fails at its write exactly when its Memory is no
\* longer in the store, which only a delete that succeeded in between brings
\* about, and the failed write leaves the store as it was.
C10_WriteFailsOnlyAfterDelete ==
    [][/\ WholeOrNothing
       /\ last'.calls = 2 =>
            /\ last'.outcome \in {"ok", "writeFailed"}
            /\ (last'.outcome = "writeFailed") <=> (last'.param.n \notin Ids(store))
            /\ last'.outcome = "writeFailed" =>
                 (last'.param.n \in deleted /\ store' = store)]_vars

C10_Witness ==
    /\ last.kind = "DELETE"
    /\ last.outcome = "writeFailed"
    /\ last.param.n \in deleted

====
